---- MODULE Spec2Model ----
(***************************************************************************)
(* Model of bevy-web3's EthWallet (src/src/lib.rs): a Bevy resource that   *)
(* spawns detached wallet-provider tasks and hands their results to the    *)
(* frame loop through four unbounded async_channel queues.                 *)
(*                                                                         *)
(* The caller (the frame loop) runs connect/sign/send/call and the four    *)
(* recv_* polls; every spawned task is a little process with a position    *)
(* (pc) that advances when the provider answers one of its awaits.         *)
(***************************************************************************)
EXTENDS Integers, Sequences, FiniteSets, TLC

VARIABLES
    accounts,   \* EthWallet.accounts : Vec<H160>
    chain_id,   \* EthWallet.chain_id : u64
    chan,       \* the four channels' buffered messages, oldest first
    handles,    \* per channel: live Sender handles (tx) and Receiver handles (rx)
    tasks,      \* the tasks spawned so far, in spawn order; pc is the await a
                \* task is parked at, or "done" / "panicked", and `at` the
                \* last await (or the as_u64 conversion) it reached
    caller,     \* "running", or "panicked" once an unwrap() failed in the caller
    ret,        \* what the caller's most recent operation returned
    sentLog,    \* history: per channel, the (task, value) pairs sent, in send order
    okLog       \* history: per channel, the values polls returned Ok, in order

vars == <<accounts, chain_id, chan, handles, tasks, caller, ret, sentLog, okLog>>

----------------------------------------------------------------------------
(* Bounds of the model *)

\* at most this many tasks are spawned in one behaviour
MaxTasks == 2

----------------------------------------------------------------------------
(* Data *)

Kinds == {"account", "signature", "transaction", "call"}

\* an H160 is 20 bytes
H160Len == 20

Addr1 == [i \in 1..H160Len |-> 170]
Addr2 == [i \in 1..H160Len |-> IF i = 1 THEN 15 ELSE 187]

\* what the provider may answer to request_accounts
AccountLists == {<<>>, <<Addr1>>, <<Addr2, Addr1>>}

\* what the provider may answer to chain_id: a U256, four 64-bit limbs, least
\* significant first; <<0, 1, 0, 0>> is 2^64
ChainIds == {<<1, 0, 0, 0>>, <<5, 0, 0, 0>>, <<0, 1, 0, 0>>}

HexDigits == <<"0", "1", "2", "3", "4", "5", "6", "7",
               "8", "9", "a", "b", "c", "d", "e", "f">>

IsHexDigit(c) == \E i \in 1..16 : HexDigits[i] = c

HexVal(c) == (CHOOSE i \in 1..16 : HexDigits[i] = c) - 1

\* a to_hex that writes the low nibble of every byte first
to_hex_swapped(bytes) ==
    <<"0", "x">> \o
    [i \in 1..(2 * Len(bytes)) |->
        IF i % 2 = 1 THEN HexDigits[(bytes[(i + 1) \div 2] % 16) + 1]
                     ELSE HexDigits[(bytes[i \div 2] \div 16) + 1]]

\* PeerId::to_hex: "0x" followed by two lower-case hex digits per byte
to_hex(bytes) ==
    <<"0", "x">> \o
    [i \in 1..(2 * Len(bytes)) |->
        IF i % 2 = 1 THEN HexDigits[(bytes[(i + 1) \div 2] \div 16) + 1]
                     ELSE HexDigits[(bytes[i \div 2] % 16) + 1]]

StripPrefix(s) ==
    IF Len(s) >= 2 /\ s[1] = "0" /\ s[2] = "x" THEN SubSeq(s, 3, Len(s)) ELSE s

\* <H160 as FromStr>::from_str: exactly 40 hex digits, else an error
ParseOk(s) ==
    LET h == StripPrefix(s)
    IN  /\ Len(h) = 2 * H160Len
        /\ \A i \in 1..Len(h) : IsHexDigit(h[i])

ParseH160(s) ==
    LET h == StripPrefix(s)
    IN  [i \in 1..H160Len |-> 16 * HexVal(h[2 * i - 1]) + HexVal(h[2 * i])]

\* U256::fits_word: every limb above the lowest is zero
fits_word(c) == \A i \in 2..Len(c) : c[i] = 0

\* U256::as_u64: the lowest limb (the caller panics first unless fits_word)
as_u64(c) == c[1]

\* the strings a caller may pass as `account` / `from`
AddrStr1 == SubSeq(to_hex(Addr1), 3, 2 + 2 * H160Len)
BadStr == <<"z", "z">>
AccountStrs == {AddrStr1, BadStr}

Messages == {"m1", "m2"}
Signatures == {"sigA", "sigB"}
TxHashes == {"h1", "h2"}
CallData == {<<1>>}
CallOutputs == {<<>>, <<7>>}

----------------------------------------------------------------------------
(* Channels (async_channel::unbounded) *)

Closed(k) == handles[k].tx = 0 \/ handles[k].rx = 0

\* a receive that reads the newest buffered message
try_recv_newest(k) ==
    IF chan[k] # <<>> THEN [tag |-> "Ok", val |-> chan[k][Len(chan[k])]]
    ELSE IF Closed(k) THEN [tag |-> "Closed", val |-> <<>>]
    ELSE [tag |-> "Empty", val |-> <<>>]

\* Receiver::try_recv: the oldest buffered message if there is one; else
\* Closed if the channel is closed, else Empty
try_recv(k) ==
    IF chan[k] # <<>> THEN [tag |-> "Ok", val |-> Head(chan[k])]
    ELSE IF Closed(k) THEN [tag |-> "Closed", val |-> <<>>]
    ELSE [tag |-> "Empty", val |-> <<>>]

\* a receive that reads the oldest message without removing it
after_recv_peek(k) == chan[k]

\* the queue after try_recv
after_recv(k) == IF chan[k] # <<>> THEN Tail(chan[k]) ELSE chan[k]

\* a conversion with the two arms swapped
RecvErrorFrom_swapped(tag) ==
    CASE tag = "Empty" -> "Closed"
      [] tag = "Closed" -> "Empty"

\* From<TryRecvError> for RecvError
RecvErrorFrom(tag) ==
    CASE tag = "Empty" -> "Empty"
      [] tag = "Closed" -> "Closed"

\* a send that loses the message
send_msg_drop(k, v) == chan[k]

\* a channel that hands out the newest message first
send_msg_lifo(k, v) == IF Closed(k) THEN chan[k] ELSE <<v>> \o chan[k]

\* Sender::send on an unbounded channel: appends unless the channel is closed
\* (the error is discarded by `let _ =`)
send_msg(k, v) == IF Closed(k) THEN chan[k] ELSE Append(chan[k], v)

----------------------------------------------------------------------------
(* Initial state: init_eth_wallet *)

\* a session that hands its only Sender to the tasks instead of cloning it
SessionHandles_moved == [tx |-> 0, rx |-> 1]

\* the session keeps one Sender and one Receiver of every channel
SessionHandles == [tx |-> 1, rx |-> 1]

Init ==
    /\ accounts = <<>>
    /\ chain_id = 0
    /\ chan = [k \in Kinds |-> <<>>]
    /\ handles = [k \in Kinds |-> SessionHandles]
    /\ tasks = <<>>
    /\ caller = "running"
    /\ ret = [op |-> "init", tag |-> "Unit", val |-> <<>>]
    /\ sentLog = [k \in Kinds |-> <<>>]
    /\ okLog = [k \in Kinds |-> <<>>]

----------------------------------------------------------------------------
(* The caller's spawn operations *)

Unit(op) == [op |-> op, tag |-> "Unit", val |-> <<>>]

Panic(op) == [op |-> op, tag |-> "Panic", val |-> <<>>]

FirstAwait(k) ==
    CASE k = "account" -> "request_accounts"
      [] k = "signature" -> "sign"
      [] k = "transaction" -> "send_transaction"
      [] k = "call" -> "call"

NewTask(k, args) ==
    [kind |-> k, pc |-> FirstAwait(k), at |-> FirstAwait(k), args |-> args,
     addrs |-> <<>>]

CanSpawn == caller = "running" /\ Len(tasks) < MaxTasks

\* a spawn that cancels the tasks of the same kind that are still parked
Spawn_cancels(op, k, args) ==
    /\ handles' = [handles EXCEPT ![k].tx = @ + 1]
    /\ tasks' = Append([t \in 1..Len(tasks) |->
                          IF tasks[t].kind = k /\ tasks[t].pc \notin {"done", "panicked"}
                          THEN [tasks[t] EXCEPT !.pc = "panicked"]
                          ELSE tasks[t]],
                       NewTask(k, args))
    /\ ret' = Unit(op)
    /\ UNCHANGED <<accounts, chain_id, chan, caller, sentLog, okLog>>

\* self.<k>_tx.clone(), then IoTaskPool::spawn(...).detach()
Spawn(op, k, args) ==
    /\ handles' = [handles EXCEPT ![k].tx = @ + 1]
    /\ tasks' = Append(tasks, NewTask(k, args))
    /\ ret' = Unit(op)
    /\ UNCHANGED <<accounts, chain_id, chan, caller, sentLog, okLog>>

\* an unwrap() of a parse error in the caller: nothing is spawned
CallerPanic(op) ==
    /\ caller' = "panicked"
    /\ ret' = Panic(op)
    /\ UNCHANGED <<accounts, chain_id, chan, handles, tasks, sentLog, okLog>>

connect ==
    /\ CanSpawn
    /\ Spawn("connect", "account", <<>>)

\* a sign() that leaves the parse of `account` to the spawned task
sign_deferred(account, msg) ==
    /\ CanSpawn
    /\ Spawn("sign", "signature", <<account, msg>>)

sign(account, msg) ==
    /\ CanSpawn
    /\ IF ParseOk(account)
       THEN Spawn("sign", "signature", <<ParseH160(account), msg>>)
       ELSE CallerPanic("sign")

send(from, to, data) ==
    /\ CanSpawn
    /\ IF ParseOk(from)
       THEN Spawn("send", "transaction", <<ParseH160(from), to, data>>)
       ELSE CallerPanic("send")

call(to, data) ==
    /\ CanSpawn
    /\ Spawn("call", "call", <<to, data>>)

----------------------------------------------------------------------------
(* The background tasks *)

Running(t) == tasks[t].pc \notin {"done", "panicked"}

\* a task that sends its result twice
Finish_twice(t, pc, at, k, msgs) ==
    /\ tasks' = [tasks EXCEPT ![t].pc = pc, ![t].at = at, ![t].addrs = <<>>]
    /\ chan' = [chan EXCEPT ![k] = IF msgs = <<>> THEN @
                                   ELSE Append(send_msg(k, msgs[1]), msgs[1])]
    /\ sentLog' = [sentLog EXCEPT ![k] =
                      IF msgs = <<>> \/ Closed(k) THEN @
                      ELSE Append(Append(@, [task |-> t, val |-> msgs[1]]),
                                  [task |-> t, val |-> msgs[1]])]
    /\ handles' = [handles EXCEPT ![k].tx = @ - 1]
    /\ UNCHANGED <<accounts, chain_id, caller, ret, okLog>>

\* a task that writes the session's fields itself when it sends
Finish_stores(t, pc, at, k, msgs) ==
    /\ tasks' = [tasks EXCEPT ![t].pc = pc, ![t].at = at, ![t].addrs = <<>>]
    /\ chan' = [chan EXCEPT ![k] = IF msgs = <<>> THEN @ ELSE send_msg(k, msgs[1])]
    /\ sentLog' = [sentLog EXCEPT ![k] =
                      IF msgs = <<>> \/ Closed(k) THEN @
                      ELSE Append(@, [task |-> t, val |-> msgs[1]])]
    /\ handles' = [handles EXCEPT ![k].tx = @ - 1]
    /\ accounts' = IF k = "account" /\ msgs # <<>> THEN msgs[1][1] ELSE accounts
    /\ UNCHANGED <<chain_id, caller, ret, okLog>>

\* the task ends: its future, and the Sender clone it owns, are dropped
Finish(t, pc, at, k, msgs) ==
    /\ tasks' = [tasks EXCEPT ![t].pc = pc, ![t].at = at, ![t].addrs = <<>>]
    /\ chan' = [chan EXCEPT ![k] = IF msgs = <<>> THEN @ ELSE send_msg(k, msgs[1])]
    /\ sentLog' = [sentLog EXCEPT ![k] =
                      IF msgs = <<>> \/ Closed(k) THEN @
                      ELSE Append(@, [task |-> t, val |-> msgs[1]])]
    /\ handles' = [handles EXCEPT ![k].tx = @ - 1]
    /\ UNCHANGED <<accounts, chain_id, caller, ret, okLog>>

\* a task that reports the provider's error on its channel
TaskFail_reports(t) ==
    /\ Running(t)
    /\ Finish(t, "panicked", tasks[t].at, tasks[t].kind, <<(<<<<>>, 0>>)>>)

\* an unwrap() fails inside the task (no provider, or the provider call
\* returned an error): the task unwinds without sending
TaskFail(t) ==
    /\ Running(t)
    /\ Finish(t, "panicked", tasks[t].at, tasks[t].kind, <<>>)

\* request_accounts().await returned Ok(addrs)
AccountsReply(t, addrs) ==
    /\ tasks[t].pc = "request_accounts"
    /\ tasks' = [tasks EXCEPT ![t].pc = "chain_id", ![t].at = "chain_id",
                              ![t].addrs = addrs]
    /\ UNCHANGED <<accounts, chain_id, chan, handles, caller, ret, sentLog, okLog>>

\* a connect task without the `!addrs.is_empty()` test
connect_send_always(addrs, chain) ==
    IF fits_word(chain)
    THEN [panics |-> FALSE, msgs |-> <<(<<addrs, as_u64(chain)>>)>>]
    ELSE [panics |-> TRUE, msgs |-> <<>>]

\* what the connect task sends once it has addrs and chain: `panics` when
\* as_u64 overflows, else the messages (none or one)
connect_send(addrs, chain) ==
    IF addrs # <<>>
    THEN IF fits_word(chain)
         THEN [panics |-> FALSE, msgs |-> <<(<<addrs, as_u64(chain)>>)>>]
         ELSE [panics |-> TRUE, msgs |-> <<>>]
    ELSE [panics |-> FALSE, msgs |-> <<>>]

\* chain_id().await returned Ok(chain); the rest of the task runs
ChainReply(t, chain) ==
    /\ tasks[t].pc = "chain_id"
    /\ LET s == connect_send(tasks[t].addrs, chain)
       IN  Finish(t, IF s.panics THEN "panicked" ELSE "done",
                  IF s.panics THEN "as_u64" ELSE "chain_id", "account", s.msgs)

\* eth().sign(account, msg).await returned Ok(signature)
SignReply(t, signature) ==
    /\ tasks[t].pc = "sign"
    /\ Finish(t, "done", "sign", "signature", <<signature>>)

\* eth().send_transaction(txr).await returned Ok(hash)
SendReply(t, hash) ==
    /\ tasks[t].pc = "send_transaction"
    /\ Finish(t, "done", "send_transaction", "transaction", <<hash>>)

\* eth().call(call, None).await returned Ok(bytes)
CallReply(t, bytes) ==
    /\ tasks[t].pc = "call"
    /\ Finish(t, "done", "call", "call", <<bytes>>)

----------------------------------------------------------------------------
(* The caller's polls *)

RecvOp(k) ==
    CASE k = "account" -> "recv_account"
      [] k = "signature" -> "recv_signature"
      [] k = "transaction" -> "recv_transaction"
      [] k = "call" -> "recv_call"

\* `self.<k>_rx.try_recv()?`: the dequeue and, on an error, the early return
Poll(k, r) ==
    /\ chan' = [chan EXCEPT ![k] = after_recv(k)]
    /\ okLog' = [okLog EXCEPT ![k] = IF r.tag = "Ok" THEN Append(@, r.val) ELSE @]
    /\ UNCHANGED <<handles, tasks, sentLog>>

\* an assignment that forgets `self.chain_id = chain`
store_account_stale(m) == [accounts |-> m[1], chain_id |-> chain_id]

\* the fields recv_account assigns from the message (addrs, chain)
store_account(m) == [accounts |-> m[1], chain_id |-> m[2]]

recv_account ==
    /\ caller = "running"
    /\ LET r == try_recv("account")
       IN  /\ Poll("account", r)
           /\ IF r.tag = "Ok"
              THEN LET st == store_account(r.val)
                   IN  /\ accounts' = st.accounts
                       /\ chain_id' = st.chain_id
                       /\ IF st.accounts = <<>>
                          THEN \* self.accounts[0] is out of bounds
                               /\ caller' = "panicked"
                               /\ ret' = Panic("recv_account")
                          ELSE /\ caller' = caller
                               /\ ret' = [op |-> "recv_account", tag |-> "Ok",
                                          val |-> <<to_hex(st.accounts[1]), r.val[2]>>]
              ELSE /\ ret' = [op |-> "recv_account", tag |-> RecvErrorFrom(r.tag),
                              val |-> <<>>]
                   /\ UNCHANGED <<accounts, chain_id, caller>>

\* recv_signature, recv_transaction, recv_call
recv_value(k) ==
    /\ caller = "running"
    /\ LET r == try_recv(k)
       IN  /\ Poll(k, r)
           /\ ret' = [op |-> RecvOp(k),
                      tag |-> IF r.tag = "Ok" THEN "Ok" ELSE RecvErrorFrom(r.tag),
                      val |-> r.val]
    /\ UNCHANGED <<accounts, chain_id, caller>>

recv_signature == recv_value("signature")

\* a recv_transaction that reads the signature receiver
recv_transaction_wrong ==
    /\ caller = "running"
    /\ LET r == try_recv("signature")
       IN  /\ Poll("signature", r)
           /\ ret' = [op |-> "recv_transaction",
                      tag |-> IF r.tag = "Ok" THEN "Ok" ELSE RecvErrorFrom(r.tag),
                      val |-> r.val]
    /\ UNCHANGED <<accounts, chain_id, caller>>

recv_transaction == recv_value("transaction")

recv_call == recv_value("call")

----------------------------------------------------------------------------
(* The specification *)

TaskIds == 1..Len(tasks)

Next ==
    \/ connect
    \/ \E a \in AccountStrs, m \in Messages : sign(a, m)
    \/ \E f \in AccountStrs, d \in CallData : send(f, Addr2, d)
    \/ \E d \in CallData : call(Addr2, d)
    \/ \E t \in TaskIds : TaskFail(t)
    \/ \E t \in TaskIds, a \in AccountLists : AccountsReply(t, a)
    \/ \E t \in TaskIds, c \in ChainIds : ChainReply(t, c)
    \/ \E t \in TaskIds, s \in Signatures : SignReply(t, s)
    \/ \E t \in TaskIds, h \in TxHashes : SendReply(t, h)
    \/ \E t \in TaskIds, b \in CallOutputs : CallReply(t, b)
    \/ recv_account
    \/ recv_signature
    \/ recv_transaction
    \/ recv_call

Spec == Init /\ [][Next]_vars

\* one step of task t: the provider resolves the call the task is parked at
TaskStep(t) ==
    /\ t \in TaskIds
    /\ \/ TaskFail(t)
       \/ \E a \in AccountLists : AccountsReply(t, a)
       \/ \E c \in ChainIds : ChainReply(t, c)
       \/ \E s \in Signatures : SignReply(t, s)
       \/ \E h \in TxHashes : SendReply(t, h)
       \/ \E b \in CallOutputs : CallReply(t, b)

\* the task pool runs every spawned task whose provider call resolves, and the
\* frame loop keeps polling each channel
FairSpec ==
    /\ Spec
    /\ \A t \in 1..MaxTasks : WF_vars(TaskStep(t))
    /\ WF_vars(recv_account)
    /\ WF_vars(recv_signature)
    /\ WF_vars(recv_transaction)
    /\ WF_vars(recv_call)

----------------------------------------------------------------------------
(* Properties *)

Spawned(k) == Cardinality({t \in TaskIds : tasks[t].kind = k})

Sent(k) == Len(sentLog[k])

OkCount(k) == Len(okLog[k])

SentVals(k) == [i \in 1..Len(sentLog[k]) |-> sentLog[k][i].val]

\* C1 (single producer cycle): in a session with exactly one connect(), a
\* recv_account() returns Ok exactly when that connect's task has sent its
\* result and no earlier recv_account() returned Ok; every other
\* recv_account(), in particular every one after the Ok one, returns Empty.
C1_SingleProducerCycle ==
    [][(recv_account /\ Spawned("account") = 1) =>
          /\ ret'.tag \in {"Ok", "Empty"}
          /\ ret'.tag = "Ok" <=> (Sent("account") = 1 /\ OkCount("account") = 0)
          /\ OkCount("account")' <= 1]_vars

\* one connect succeeded, one poll returned Ok, and a later poll returned Empty
C1_Witness ==
    /\ Spawned("account") = 1
    /\ Sent("account") = 1
    /\ OkCount("account") = 1
    /\ ret.op = "recv_account"
    /\ ret.tag = "Empty"

\* C2 (atomic state update): the stored (accounts, chain_id) is the initial
\* pair (<<>>, 0) until a recv_account() returns Ok, and afterwards is exactly
\* the pair of the message the most recent Ok recv_account() consumed, which
\* is one message some connect task sent.
C2_AtomicStateUpdate ==
    IF okLog["account"] = <<>>
    THEN accounts = <<>> /\ chain_id = 0
    ELSE /\ <<accounts, chain_id>> = okLog["account"][OkCount("account")]
         /\ \E i \in 1..Sent("account") :
                sentLog["account"][i].val = <<accounts, chain_id>>

\* two connect tasks overlapped and delivered pairs that differ in both
\* fields; both were polled
C2_Witness ==
    /\ OkCount("account") = 2
    /\ okLog["account"][1][1] # okLog["account"][2][1]
    /\ okLog["account"][1][2] # okLog["account"][2][2]
    /\ \E t \in TaskIds : sentLog["account"][1].task = t /\ t # 1
    /\ ret.op = "recv_account"
    /\ ret.tag = "Ok"

SpawnOp(k) ==
    CASE k = "account" -> "connect"
      [] k = "signature" -> "sign"
      [] k = "transaction" -> "send"
      [] k = "call" -> "call"

RecvStep(k) == IF k = "account" THEN recv_account ELSE recv_value(k)

\* the caller's last operation was the spawn of a task of kind k and that
\* task (the newest) has not completed
JustSpawned(k) ==
    /\ ret.op = SpawnOp(k)
    /\ ret.tag = "Unit"
    /\ tasks # <<>>
    /\ tasks[Len(tasks)].kind = k
    /\ Running(Len(tasks))

\* ... and the caller now polls channel k
PollRightAfterSpawn(k) == JustSpawned(k) /\ RecvStep(k)

\* C3 as stated (empty-before-ready): a poll made immediately after its
\* matching spawn call, before the spawned task has completed, returns Empty.
C3_Original ==
    [][\A k \in Kinds : PollRightAfterSpawn(k) => ret'.tag = "Empty"]_vars

\* C3 as amended: such a poll can always be taken (it does not block), never
\* returns Closed, and returns Empty whenever every result sent so far on
\* that channel by earlier tasks of the kind has already been returned by a
\* poll.
C3_EmptyBeforeReady ==
    [][\A k \in Kinds :
          /\ JustSpawned(k) => ENABLED RecvStep(k)
          /\ PollRightAfterSpawn(k) =>
                /\ ret'.tag \in {"Ok", "Empty"}
                /\ (Sent(k) = OkCount(k) => ret'.tag = "Empty")
                /\ (ret'.tag = "Empty" => chan' = chan)]_vars

\* a poll of the signature channel came back Empty while the sign task
\* spawned just before it (the newest task) is still parked at the provider
C3_Witness ==
    /\ tasks # <<>>
    /\ tasks[Len(tasks)].kind = "signature"
    /\ Running(Len(tasks))
    /\ ret.op = "recv_signature"
    /\ ret.tag = "Empty"
    /\ Sent("signature") = OkCount("signature")

\* C4 (ordering under concurrency): once two sign() tasks have both sent
\* their signatures, the signature channel holds them in the order the tasks
\* completed; recv_signature() returns them in that order, and once both
\* have been returned it returns Empty.
C4_CompletionOrder ==
    [][(Spawned("signature") = 2 /\ Sent("signature") = 2) =>
          /\ okLog["signature"] \o chan["signature"] = SentVals("signature")
          /\ recv_signature =>
                IF OkCount("signature") < 2
                THEN /\ ret'.tag = "Ok"
                     /\ ret'.val = sentLog["signature"][OkCount("signature") + 1].val
                ELSE ret'.tag = "Empty"]_vars

\* two sign() calls with different messages completed in the order opposite
\* to their spawn order with different signatures; two polls returned the
\* signatures in completion order and the third poll returned Empty
C4_Witness ==
    /\ Spawned("signature") = 2
    /\ Sent("signature") = 2
    /\ tasks[1].args[2] # tasks[2].args[2]
    /\ sentLog["signature"][1].task = 2
    /\ sentLog["signature"][2].task = 1
    /\ sentLog["signature"][1].val # sentLog["signature"][2].val
    /\ okLog["signature"] = SentVals("signature")
    /\ ret.op = "recv_signature"
    /\ ret.tag = "Empty"

\* C6 (Closed is not reachable): no poll has returned Closed and none would:
\* every channel has at least one live Sender and one live Receiver.
C6_NeverClosed ==
    /\ ret.tag # "Closed"
    /\ \A k \in Kinds :
          /\ handles[k].tx >= 1
          /\ handles[k].rx >= 1
          /\ try_recv(k).tag # "Closed"

\* every spawned task has ended (one of them by a panic), dropping its Sender
\* clone, and a poll made afterwards on a drained channel returned Empty
C6_Witness ==
    /\ tasks # <<>>
    /\ \A t \in TaskIds : ~Running(t)
    /\ \E t \in TaskIds : tasks[t].pc = "panicked"
    /\ \E t \in TaskIds : tasks[t].pc = "done" /\ ret.op = RecvOp(tasks[t].kind)
    /\ ret.tag = "Empty"
    /\ \A k \in Kinds : handles[k].tx = 1

\* C7 (connect enqueues only a non-empty list, at most once): a step of a
\* connect task changes the channels only when the task ends after the
\* provider returned a non-empty account list, and then appends the one
\* message (that list, chain id) to the account channel; no queued message
\* has an empty list, no task has sent twice, and while nothing was sent
\* recv_account() returns Empty.
C7_ConnectEnqueue ==
    [][/\ \A t \in TaskIds :
             (tasks[t].kind = "account" /\ tasks'[t] # tasks[t]) =>
                IF tasks[t].addrs # <<>> /\ tasks'[t].pc = "done"
                THEN \E c \in ChainIds :
                        chan' = [chan EXCEPT !["account"] =
                                    Append(@, <<tasks[t].addrs, as_u64(c)>>)]
                ELSE chan' = chan
       /\ \A i \in 1..Len(chan["account"]') : chan["account"]'[i][1] # <<>>
       /\ \A i, j \in 1..Sent("account")' :
             sentLog["account"]'[i].task = sentLog["account"]'[j].task => i = j
       /\ Sent("account")' <= Spawned("account")'
       /\ (recv_account /\ Sent("account") = 0) => ret'.tag = "Empty"]_vars

\* the only connect task ran to its end with an empty account list: nothing
\* was sent and recv_account() returned Empty
C7_Witness ==
    /\ Spawned("account") = 1
    /\ \E t \in TaskIds :
          tasks[t].kind = "account" /\ tasks[t].pc = "done"
    /\ Sent("account") = 0
    /\ chan["account"] = <<>>
    /\ ret.op = "recv_account"
    /\ ret.tag = "Empty"

\* a connect task ends by a failed provider call in this step
ConnectFails(t) ==
    /\ tasks[t].kind = "account"
    /\ Running(t)
    /\ tasks'[t].pc = "panicked"
    /\ tasks'[t].at \in {"request_accounts", "chain_id"}

\* C8 (fail-silent connect): a connect task that ends because a provider call
\* failed changes no channel and no session field, and as long as no connect
\* task has sent anything recv_account() returns Empty, whether the tasks
\* are still pending or have failed.
C8_FailSilentConnect ==
    [][/\ \A t \in TaskIds : ConnectFails(t) =>
             /\ chan' = chan
             /\ sentLog' = sentLog
             /\ accounts' = accounts
             /\ chain_id' = chain_id
             /\ ret' = ret
       /\ (recv_account /\ \A t \in TaskIds :
                               tasks[t].kind = "account" => tasks[t].pc # "done") =>
             /\ ret'.tag = "Empty"
             /\ accounts' = accounts
             /\ chain_id' = chain_id]_vars

\* the only connect task failed at the chain-id request, after the account
\* request had succeeded, and a later recv_account() returned Empty
C8_Witness ==
    /\ Spawned("account") = 1
    /\ \E t \in TaskIds :
          /\ tasks[t].kind = "account"
          /\ tasks[t].pc = "panicked"
          /\ tasks[t].at = "chain_id"
    /\ ret.op = "recv_account"
    /\ ret.tag = "Empty"
    /\ accounts = <<>>
    /\ chain_id = 0

\* C9 (provider failures are deliverable): every task that ended because a
\* provider call failed has sent an outcome on the channel of its kind.
C9_FailuresDelivered ==
    \A t \in TaskIds :
        (tasks[t].pc = "panicked" /\ tasks[t].at # "as_u64") =>
            \E i \in 1..Sent(tasks[t].kind) :
                sentLog[tasks[t].kind][i].task = t

\* C10 (only recv_account writes session state): a step that changes the
\* stored account list or chain id is a recv_account() that returned Ok.
C10_OnlyRecvAccountWrites ==
    [][(accounts' # accounts \/ chain_id' # chain_id) =>
          /\ recv_account
          /\ ret'.op = "recv_account"
          /\ ret'.tag = "Ok"
          /\ <<accounts', chain_id'>> = Head(chan["account"])]_vars

\* after a recv_account() stored a pair, a sign task was spawned, sent its
\* signature and was polled, and the stored pair is still the one stored
C10_Witness ==
    /\ OkCount("account") = 1
    /\ <<accounts, chain_id>> = okLog["account"][1]
    /\ tasks[Len(tasks)].kind = "signature"
    /\ tasks[Len(tasks)].pc = "done"
    /\ ret.op = "recv_signature"
    /\ ret.tag = "Ok"

\* C11 (parse errors are synchronous): a sign() or send() whose account/from
\* string is not a valid address fails in the call itself: the call returns
\* by the parse failure, spawns no task, clones no Sender, and leaves every
\* channel, the stored fields and the send history unchanged; every task that
\* exists carries a parsed 20-byte address.
C11_ParseErrorSynchronous ==
    [][/\ \A a \in AccountStrs :
             (/\ ~ParseOk(a)
              /\ \/ \E m \in Messages : sign(a, m)
                 \/ \E d \in CallData : send(a, Addr2, d)) =>
                /\ ret'.tag = "Panic"
                /\ ret'.op \in {"sign", "send"}
                /\ tasks' = tasks
                /\ handles' = handles
                /\ chan' = chan
                /\ sentLog' = sentLog
                /\ accounts' = accounts
                /\ chain_id' = chain_id
       /\ \A t \in 1..Len(tasks') :
             tasks'[t].kind \in {"signature", "transaction"} =>
                Len(tasks'[t].args[1]) = H160Len]_vars

\* sign() was called with a malformed account while an earlier connect's
\* result was waiting in the account channel: no second task exists
C11_Witness ==
    /\ ret = Panic("sign")
    /\ caller = "panicked"
    /\ Len(tasks) = 1
    /\ Len(chan["account"]) = 1
    /\ \A k \in Kinds : handles[k].tx = 1

\* C12 (account round-trip): when a connect task completes after the provider
\* returned a non-empty list A and chain id c, it enqueues exactly (A, c);
\* the recv_account() that consumes a queued (A, c) returns Ok with the hex
\* text of A's first account (which parses back to that account) and c, and
\* leaves accounts = A and chain_id = c; results are consumed in the order
\* they were sent.
C12_AccountRoundTrip ==
    [][/\ \A t \in TaskIds, c \in ChainIds :
             (/\ ChainReply(t, c)
              /\ tasks[t].addrs # <<>>
              /\ tasks'[t].pc = "done") =>
                /\ \A i \in 2..Len(c) : c[i] = 0
                /\ chan'["account"] =
                      Append(chan["account"], <<tasks[t].addrs, c[1]>>)
       /\ (recv_account /\ chan["account"] # <<>>) =>
             LET A == Head(chan["account"])[1]
                 c == Head(chan["account"])[2]
             IN  /\ ret'.op = "recv_account"
                 /\ ret'.tag = "Ok"
                 /\ ParseOk(ret'.val[1])
                 /\ ParseH160(ret'.val[1]) = A[1]
                 /\ ret'.val[2] = c
                 /\ accounts' = A
                 /\ chain_id' = c
       /\ \A i \in 1..Len(okLog'["account"]) :
             okLog'["account"][i] = sentLog'["account"][i].val]_vars

\* the provider returned [0x0fbb.., 0xaa..] and chain id 5; recv_account()
\* returned ("0x0fbb..", 5) and the session stores that list and 5
C12_Witness ==
    /\ ret.op = "recv_account"
    /\ ret.tag = "Ok"
    /\ accounts = <<Addr2, Addr1>>
    /\ chain_id = 5
    /\ ret.val[2] = 5
    /\ Len(ret.val[1]) = 2 + 2 * H160Len
    /\ SubSeq(ret.val[1], 1, 6) = <<"0", "x", "0", "f", "b", "b">>

\* the results sent on channel k that no poll has returned yet, oldest first
Unconsumed(k) == SubSeq(SentVals(k), OkCount(k) + 1, Sent(k))

\* C13 (poll result matches queue contents): on each of the four channels a
\* poll returns Ok exactly when some result sent on the channel has not been
\* returned yet; it then returns the oldest such result and removes only that
\* one; otherwise it returns Empty and leaves the queue as it was.
C13_PollMatchesQueue ==
    [][\A k \in Kinds : RecvStep(k) =>
          /\ ret'.op = RecvOp(k)
          /\ IF Unconsumed(k) # <<>>
             THEN /\ ret'.tag = "Ok"
                  /\ okLog'[k] = Append(okLog[k], Head(Unconsumed(k)))
                  /\ IF k = "account"
                     THEN /\ ParseH160(ret'.val[1]) = Head(Unconsumed(k))[1][1]
                          /\ ret'.val[2] = Head(Unconsumed(k))[2]
                     ELSE ret'.val = Head(Unconsumed(k))
                  /\ chan'[k] = Tail(Unconsumed(k))
             ELSE /\ ret'.tag = "Empty"
                  /\ okLog' = okLog
                  /\ chan'[k] = <<>>
                  /\ chan[k] = <<>>]_vars

\* two call tasks sent different outputs; the first poll returned the older
\* one and left the newer one queued
C13_Witness ==
    /\ Sent("call") = 2
    /\ sentLog["call"][1].val # sentLog["call"][2].val
    /\ OkCount("call") = 1
    /\ ret.op = "recv_call"
    /\ ret.tag = "Ok"
    /\ ret.val = sentLog["call"][1].val
    /\ chan["call"] = <<sentLog["call"][2].val>>

\* C14 (at most one send per task): every result ever sent on a channel was
\* sent by a finished task of that channel's kind, no task has sent twice,
\* and so the results sent, and the results queued, on a channel never
\* outnumber the spawn calls of that kind.
C14_AtMostOneSendPerTask ==
    \A k \in Kinds :
        /\ \A i \in 1..Sent(k) :
              /\ sentLog[k][i].task \in TaskIds
              /\ tasks[sentLog[k][i].task].kind = k
              /\ tasks[sentLog[k][i].task].pc = "done"
        /\ \A i, j \in 1..Sent(k) :
              sentLog[k][i].task = sentLog[k][j].task => i = j
        /\ Sent(k) <= Spawned(k)
        /\ Len(chan[k]) + OkCount(k) <= Spawned(k)

\* both send() tasks finished and the transaction channel holds two hashes
C14_Witness ==
    /\ Spawned("transaction") = 2
    /\ Sent("transaction") = 2
    /\ Len(chan["transaction"]) = 2
    /\ \A t \in TaskIds : tasks[t].pc = "done"

\* task t ended because a provider call returned an error
ProviderFailed(t) ==
    /\ tasks[t].pc = "panicked"
    /\ tasks[t].at # "as_u64"

\* task t is a connect task that ended after the provider returned no account
EmptyReply(t) ==
    /\ tasks[t].kind = "account"
    /\ tasks[t].pc = "done"
    /\ \A i \in 1..Sent("account") : sentLog["account"][i].task # t

\* a poll has returned Ok with the result task t sent
Delivered(t) ==
    \E i \in 1..OkCount(tasks[t].kind) : sentLog[tasks[t].kind][i].task = t

\* C15 (eventual delivery): under fair scheduling of the tasks and of the
\* polls, every spawned task whose provider calls all succeed (for connect,
\* with a non-empty account list) eventually has its result returned Ok by a
\* poll of its channel, as long as the caller keeps running.
C15_EventualDelivery ==
    \A t \in 1..MaxTasks :
        (Len(tasks) >= t) ~>
            (/\ Len(tasks) >= t
             /\ \/ caller = "panicked"
                \/ ProviderFailed(t)
                \/ EmptyReply(t)
                \/ Delivered(t))

\* C17 (chain id is carried without loss): whenever the provider answers a
\* connect task holding a non-empty account list with a chain id (a U256),
\* the task completes and enqueues a result whose chain id is that value.
C17_ChainIdCarried ==
    [][\A t \in TaskIds, c \in ChainIds :
          (ChainReply(t, c) /\ tasks[t].addrs # <<>>) =>
             /\ tasks'[t].pc = "done"
             /\ Len(chan'["account"]) = Len(chan["account"]) + 1
             /\ LET m == chan'["account"][Len(chan'["account"])]
                IN  /\ m[1] = tasks[t].addrs
                    /\ <<m[2], 0, 0, 0>> = c]_vars

\* a step of the caller: one of the four spawn operations or the four polls
CallerStep ==
    \/ connect
    \/ \E a \in AccountStrs, m \in Messages : sign(a, m)
    \/ \E f \in AccountStrs, d \in CallData : send(f, Addr2, d)
    \/ \E d \in CallData : call(Addr2, d)
    \/ recv_account
    \/ recv_signature
    \/ recv_transaction
    \/ recv_call

\* C16 (no cancellation or timeout): no operation of the caller changes an
\* existing task; a parked task moves only when the provider resolves the
\* call it is parked at; a parked task has sent nothing; and while the only
\* task of a kind is parked, a poll of that channel returns Empty.
C16_NoCancellation ==
    [][/\ CallerStep => \A t \in TaskIds : tasks'[t] = tasks[t]
       /\ \A t \in TaskIds :
             (Running(t) /\ tasks'[t] # tasks[t]) => TaskStep(t)
       /\ \A t \in 1..Len(tasks') :
             tasks'[t].pc \notin {"done", "panicked"} =>
                \A i \in 1..Len(sentLog'[tasks'[t].kind]) :
                   sentLog'[tasks'[t].kind][i].task # t
       /\ \A k \in Kinds :
             (/\ RecvStep(k)
              /\ Spawned(k) = 1
              /\ \E t \in TaskIds : tasks[t].kind = k /\ Running(t)) =>
                /\ ret'.tag = "Empty"
                /\ chan'[k] = <<>>]_vars

\* the only sign task is still parked at the provider after a later call
\* task was spawned, ran and was polled; recv_signature() returned Empty
C16_Witness ==
    /\ Len(tasks) = 2
    /\ tasks[1].kind = "signature"
    /\ tasks[1].pc = "sign"
    /\ tasks[2].kind = "call"
    /\ tasks[2].pc = "done"
    /\ OkCount("call") = 1
    /\ ret.op = "recv_signature"
    /\ ret.tag = "Empty"

\* C18 (recv_account never indexes an empty list): every account-result
\* queued on the account channel carries a non-empty list, recv_account() has
\* never failed on accounts[0], and once a recv_account() has returned Ok the
\* stored account list is non-empty.
C18_NoEmptyIndex ==
    /\ \A i \in 1..Len(chan["account"]) : chan["account"][i][1] # <<>>
    /\ ret # Panic("recv_account")
    /\ OkCount("account") > 0 => accounts # <<>>

\* one connect task got an empty list and sent nothing, another sent a
\* one-account list, and recv_account() returned it
C18_Witness ==
    /\ Spawned("account") = 2
    /\ \A t \in TaskIds : tasks[t].pc = "done"
    /\ Sent("account") = 1
    /\ OkCount("account") = 1
    /\ Len(accounts) = 1
    /\ ret.op = "recv_account"
    /\ ret.tag = "Ok"

\* C19 (exactly-once consumption): on every channel the results sent so far
\* are, in order, the results polls have returned Ok followed by the results
\* still queued; so sent = returned + queued, nothing is returned twice and
\* nothing is lost.
C19_ExactlyOnce ==
    \A k \in Kinds :
        /\ okLog[k] \o chan[k] = SentVals(k)
        /\ Sent(k) = OkCount(k) + Len(chan[k])

\* of two signatures sent, one has been returned and one is still queued
C19_Witness ==
    /\ Sent("signature") = 2
    /\ OkCount("signature") = 1
    /\ Len(chan["signature"]) = 1
    /\ ret.op = "recv_signature"
    /\ ret.tag = "Ok"

\* the values the provider can return for a task of kind k, as they travel
\* on channel k
Payloads(k) ==
    CASE k = "account" -> {<<a, c[1]>> : a \in AccountLists, c \in ChainIds}
      [] k = "signature" -> Signatures
      [] k = "transaction" -> TxHashes
      [] k = "call" -> CallOutputs

\* C20 (channel isolation): a step that changes one channel's queue leaves
\* the other three queues unchanged; a poll that takes a message takes it
\* from the queue of its own kind; and every result a poll of kind k has returned was sent by a task of
\* kind k and is a value of that kind.
C20_ChannelIsolation ==
    [][/\ \A k \in Kinds :
             chan'[k] # chan[k] =>
                \A j \in Kinds \ {k} : chan'[j] = chan[j] /\ okLog'[j] = okLog[j]
       /\ \A k \in Kinds :
             (tasks' = tasks /\ chan' # chan /\ ret'.op = RecvOp(k)) =>
                /\ chan'[k] # chan[k]
                /\ ret'.tag = "Ok"
                /\ \A j \in Kinds \ {k} : chan'[j] = chan[j] /\ okLog'[j] = okLog[j]
                /\ k # "account" => ret'.val \in Payloads(k)
       /\ \A k \in Kinds :
             \A i \in 1..Len(okLog'[k]) :
                /\ okLog'[k][i] \in Payloads(k)
                /\ okLog'[k][i] = sentLog'[k][i].val
                /\ tasks'[sentLog'[k][i].task].kind = k]_vars

\* a signature and a transaction hash were both queued; recv_transaction()
\* returned the hash and the signature is still in its own queue
C20_Witness ==
    /\ Sent("signature") = 1
    /\ Sent("transaction") = 1
    /\ ret.op = "recv_transaction"
    /\ ret.tag = "Ok"
    /\ ret.val \in TxHashes
    /\ chan["transaction"] = <<>>
    /\ Len(chan["signature"]) = 1

====
